---- MODULE Spec2Model ----
(***************************************************************************)
(* The 3-digit lotto analyzer: the App component's state and handlers      *)
(* (App.tsx), the form's validator and CSV reader (LottoForm.tsx) and the  *)
(* prediction requestor (geminiService.ts).                                *)
(*                                                                         *)
(* Text is a sequence of one-character strings.  A JavaScript value that   *)
(* may be of several types is a record with a tag field t.                 *)
(***************************************************************************)
EXTENDS Integers, Sequences, FiniteSets, TLC

VARIABLES
  \* ---- App component (useState) ----
  selectedGameId,         \* id of the active game
  recentDraws,            \* the Draw Collection, newest first
  frequencyData,          \* sorted list of [number, count, percentage]
  hotDigitsPrediction,    \* ascending list of the most frequent digits
  geminiPrediction,       \* held prediction, or Null
  isLoadingAiPrediction,  \* loading flag
  aiError,                \* prediction error, or Null
  \* ---- geminiService module ----
  ai,                     \* TRUE: client constructed; FALSE: no API_KEY
  inFlight,               \* getGeminiPrediction calls awaited by the App
  \* ---- LottoForm component ----
  error,                  \* single-entry validation error, or NoError
  fileError,              \* upload error, or NoError
  sampleDataError,        \* sample-load error, or NoError
  pendingReads,           \* FileReader reads whose onload has not fired
  \* ---- React ----
  pendingEffects,         \* recomputation effects committed and not yet run
  \* ---- observation ----
  lastEvent,              \* the handler that ran last
  \* ---- arguments and results of the pure functions ----
  input, game, result,    \* validateAndParseDraw(input, game)
  text, csv,              \* processCsvText(text, game)
  batch,                  \* handleAddMultipleDraws(batch)
  response                \* what the endpoint answers to getGeminiPrediction

appVars == <<selectedGameId, recentDraws, frequencyData, hotDigitsPrediction,
             geminiPrediction, isLoadingAiPrediction, aiError, ai, inFlight,
             error, fileError, sampleDataError, pendingReads, pendingEffects,
             lastEvent>>
fnVars == <<input, game, result, text, csv, batch, response>>
vars == <<appVars, fnVars>>

(***************************************************************************)
(* Bounds of the model.                                                    *)
(***************************************************************************)
MaxDraws == 3
MaxInFlight == 1
MaxPendingReads == 1
MaxInputLen == 5
MaxLines == 2
MaxPredicted == 3

(***************************************************************************)
(* Game catalog.  An optional field is a set: {} when absent.              *)
(***************************************************************************)
Game3d ==
  [id |-> "3d", maxNumber |-> 9, numbersToPick |-> 3,
   digitMinNumber |-> {0}, isOrderSignificant |-> TRUE]

LOTTO_GAMES == <<Game3d>>

DEFAULT_GAME_ID == LOTTO_GAMES[1].id

\* LOTTO_GAMES.find(game => game.id === selectedGameId) || LOTTO_GAMES[0]
selectedGameOf(gameId) ==
  IF \E i \in 1..Len(LOTTO_GAMES) : LOTTO_GAMES[i].id = gameId
  THEN LOTTO_GAMES[CHOOSE i \in 1..Len(LOTTO_GAMES) :
                     /\ LOTTO_GAMES[i].id = gameId
                     /\ \A j \in 1..(i - 1) : LOTTO_GAMES[j].id # gameId]
  ELSE LOTTO_GAMES[1]

\* game.digitMinNumber ?? 1
DigitMin(g) ==
  IF g.digitMinNumber = {} THEN 1 ELSE CHOOSE x \in g.digitMinNumber : TRUE

(***************************************************************************)
(* Games of the LottoGame type beyond the shipped one, as arguments of the *)
(* validator: a combination game (the else branch with uniqueness and      *)
(* sorting) and an order-significant game that is not '3d'.                *)
(***************************************************************************)
GameCombo ==
  [id |-> "3/3", maxNumber |-> 3, numbersToPick |-> 3,
   digitMinNumber |-> {}, isOrderSignificant |-> FALSE]

GameOrdered2 ==
  [id |-> "2d", maxNumber |-> 2, numbersToPick |-> 2,
   digitMinNumber |-> {0}, isOrderSignificant |-> TRUE]

ParseGames == {Game3d, GameCombo, GameOrdered2}

(***************************************************************************)
(* Text helpers.                                                           *)
(***************************************************************************)
DigitChars == <<"0", "1", "2", "3", "4", "5", "6", "7", "8", "9">>

IsDigit(c) == \E i \in 1..Len(DigitChars) : DigitChars[i] = c

DigitVal(c) == (CHOOSE i \in 1..Len(DigitChars) : DigitChars[i] = c) - 1

\* \s of a regular expression, and the characters String.prototype.trim
\* strips: WhiteSpace and LineTerminator.  A character that has no escape in
\* a string of this module is written by its code point.
IsSpace(c) ==
  c \in { " ", "\t", "\n", "\r", "\f", "U+000B", "U+00A0", "U+1680",
          "U+2000", "U+2001", "U+2002", "U+2003", "U+2004", "U+2005",
          "U+2006", "U+2007", "U+2008", "U+2009", "U+200A", "U+2028",
          "U+2029", "U+202F", "U+205F", "U+3000", "U+FEFF" }

\* the character class [,-\s]
IsSep(c) == c \in {",", "-"} \/ IsSpace(c)

RECURSIVE TrimLeft(_)
TrimLeft(s) ==
  IF s # <<>> /\ IsSpace(Head(s)) THEN TrimLeft(Tail(s)) ELSE s

RECURSIVE TrimRight(_)
TrimRight(s) ==
  IF s # <<>> /\ IsSpace(s[Len(s)])
  THEN TrimRight(SubSeq(s, 1, Len(s) - 1)) ELSE s

\* String.prototype.trim
Trim(s) == TrimRight(TrimLeft(s))

\* Array.prototype.filter(s => s !== '') / filter(line => line.length > 0)
RECURSIVE FilterNonEmpty(_)
FilterNonEmpty(ss) ==
  IF ss = <<>> THEN <<>>
  ELSE IF Head(ss) = <<>> THEN FilterNonEmpty(Tail(ss))
  ELSE <<Head(ss)>> \o FilterNonEmpty(Tail(ss))

RECURSIVE MapTrim(_)
MapTrim(ss) ==
  IF ss = <<>> THEN <<>> ELSE <<Trim(Head(ss))>> \o MapTrim(Tail(ss))

\* input.split(/[,-\s]+/): the pieces between maximal runs of separators,
\* an empty piece where the text starts or ends with a separator
RECURSIVE SplitFrom(_, _, _, _)
SplitFrom(s, i, cur, inSep) ==
  IF i > Len(s) THEN <<cur>>
  ELSE IF IsSep(s[i])
       THEN IF inSep THEN SplitFrom(s, i + 1, cur, TRUE)
            ELSE <<cur>> \o SplitFrom(s, i + 1, <<>>, TRUE)
       ELSE SplitFrom(s, i + 1, Append(cur, s[i]), FALSE)

\* input.split(/[,-\s]+/).map(s => s.trim()).filter(s => s !== '')
Tokens(s) == FilterNonEmpty(MapTrim(SplitFrom(s, 1, <<>>, FALSE)))

\* text.split(/\r\n|\n/): every "\r\n" and every "\n" ends a piece
RECURSIVE SplitLinesFrom(_, _, _)
SplitLinesFrom(s, i, cur) ==
  IF i > Len(s) THEN <<cur>>
  ELSE IF s[i] = "\n"
       THEN <<cur>> \o SplitLinesFrom(s, i + 1, <<>>)
  ELSE IF s[i] = "\r" /\ i < Len(s) /\ s[i + 1] = "\n"
       THEN <<cur>> \o SplitLinesFrom(s, i + 2, <<>>)
  ELSE SplitLinesFrom(s, i + 1, Append(cur, s[i]))

\* text.split(/\r\n|\n/).map(line => line.trim()).filter(line => line.length > 0)
Lines(s) == FilterNonEmpty(MapTrim(SplitLinesFrom(s, 1, <<>>)))

(***************************************************************************)
(* Natural numbers of any size: sequences of the digits 0..9, the most     *)
(* significant first, without leading zeros; zero is the empty sequence.   *)
(***************************************************************************)
StripLeadingZeros(ds) ==
  IF \A i \in 1..Len(ds) : ds[i] = 0 THEN <<>>
  ELSE SubSeq(ds, CHOOSE i \in 1..Len(ds) :
                    ds[i] # 0 /\ \A j \in 1..(i - 1) : ds[j] = 0,
              Len(ds))

StripTrailingZeros(ds) ==
  IF \A i \in 1..Len(ds) : ds[i] = 0 THEN <<>>
  ELSE SubSeq(ds, 1, CHOOSE i \in 1..Len(ds) :
                       ds[i] # 0 /\ \A j \in (i + 1)..Len(ds) : ds[j] = 0)

PadLeft(ds, n, d) == [i \in 1..(IF n > Len(ds) THEN n - Len(ds) ELSE 0) |-> d] \o ds

PadRight(ds, n, d) == ds \o [i \in 1..(IF n > Len(ds) THEN n - Len(ds) ELSE 0) |-> d]

\* a < b and a <= b for digit sequences of the same length
LexLess(a, b) ==
  \E i \in 1..Len(a) : a[i] < b[i] /\ \A j \in 1..(i - 1) : a[j] = b[j]

LexLeq(a, b) == a = b \/ LexLess(a, b)

\* a <= b for naturals
NatLeq(a, b) == Len(a) < Len(b) \/ (Len(a) = Len(b) /\ LexLeq(a, b))

\* 2 * ds: a digit takes a carry of 1 from a digit 5..9 to its right
Double(ds) ==
  LET low == [i \in 1..Len(ds) |->
                (2 * ds[i] + (IF i < Len(ds) /\ ds[i + 1] >= 5 THEN 1 ELSE 0)) % 10]
  IN (IF ds # <<>> /\ ds[1] >= 5 THEN <<1>> ELSE <<>>) \o low

\* 5 * ds, as half of 10 * ds: a digit takes 5 from an odd digit to its left
TimesFive(ds) ==
  StripLeadingZeros(
    <<>> \o [i \in 1..(Len(ds) + 1) |->
               ((IF i <= Len(ds) THEN ds[i] ELSE 0)
                  + (IF i > 1 /\ ds[i - 1] % 2 = 1 THEN 10 ELSE 0)) \div 2])

\* ds * m^e for m 2 or 5
RECURSIVE TimesPower(_, _, _)
TimesPower(ds, m, e) ==
  IF e = 0 THEN ds
  ELSE IF e = 1 THEN (IF m = 2 THEN Double(ds) ELSE TimesFive(ds))
  ELSE CHOOSE r \in { TimesPower(half, m, e - e \div 2) :
                        half \in { TimesPower(ds, m, e \div 2) } } : TRUE

PowerOf(m, e) == TimesPower(<<1>>, m, e)

\* floor(log2(a)) for 1 <= a < 2^52
Log2Floor(a) ==
  CHOOSE k \in 0..51 : NatLeq(PowerOf(2, k), a) /\ ~NatLeq(PowerOf(2, k + 1), a)

\* the value of a natural as a number of the model: exact below 10^9, and
\* 10^9 for every natural from there on (beyond the range of every game)
RECURSIVE SmallValue(_)
SmallValue(ds) ==
  IF ds = <<>> THEN 0
  ELSE 10 * SmallValue(SubSeq(ds, 1, Len(ds) - 1)) + ds[Len(ds)]

NatValue(ds) == IF Len(ds) > 9 THEN 1000000000 ELSE SmallValue(ds)

\* 2^1024 - 2^970, the least natural that Number rounds to Infinity
OverflowBoundary ==
  << 1, 7, 9, 7, 6, 9, 3, 1, 3, 4, 8, 6, 2, 3, 1, 5, 8, 0, 7, 9, 3, 7, 2, 8,
     9, 7, 1, 4, 0, 5, 3, 0, 3, 4, 1, 5, 0, 7, 9, 9, 3, 4, 1, 3, 2, 7, 1, 0,
     0, 3, 7, 8, 2, 6, 9, 3, 6, 1, 7, 3, 7, 7, 8, 9, 8, 0, 4, 4, 4, 9, 6, 8,
     2, 9, 2, 7, 6, 4, 7, 5, 0, 9, 4, 6, 6, 4, 9, 0, 1, 7, 9, 7, 7, 5, 8, 7,
     2, 0, 7, 0, 9, 6, 3, 3, 0, 2, 8, 6, 4, 1, 6, 6, 9, 2, 8, 8, 7, 9, 1, 0,
     9, 4, 6, 5, 5, 5, 5, 4, 7, 8, 5, 1, 9, 4, 0, 4, 0, 2, 6, 3, 0, 6, 5, 7,
     4, 8, 8, 6, 7, 1, 5, 0, 5, 8, 2, 0, 6, 8, 1, 9, 0, 8, 9, 0, 2, 0, 0, 0,
     7, 0, 8, 3, 8, 3, 6, 7, 6, 2, 7, 3, 8, 5, 4, 8, 4, 5, 8, 1, 7, 7, 1, 1,
     5, 3, 1, 7, 6, 4, 4, 7, 5, 7, 3, 0, 2, 7, 0, 0, 6, 9, 8, 5, 5, 5, 7, 1,
     3, 6, 6, 9, 5, 9, 6, 2, 2, 8, 4, 2, 9, 1, 4, 8, 1, 9, 8, 6, 0, 8, 3, 4,
     9, 3, 6, 4, 7, 5, 2, 9, 2, 7, 1, 9, 0, 7, 4, 1, 6, 8, 4, 4, 4, 3, 6, 5,
     5, 1, 0, 7, 0, 4, 3, 4, 2, 7, 1, 1, 5, 5, 9, 6, 9, 9, 5, 0, 8, 0, 9, 3,
     0, 4, 2, 8, 8, 0, 1, 7, 7, 9, 0, 4, 1, 7, 4, 4, 9, 7, 7, 9, 2 >>

Overflows(ds) ==
  \/ Len(ds) > Len(OverflowBoundary)
  \/ Len(ds) = Len(OverflowBoundary) /\ LexLeq(OverflowBoundary, ds)

(***************************************************************************)
(* Number(token): StringToNumber of a token, which holds no white space    *)
(* and no hyphen (both are separators).  The result is tagged:             *)
(*   "nan"  - not a StringNumericLiteral;                                  *)
(*   "int"  - an integral double, n its value (see NatValue);              *)
(*   "frac" - a double with a fractional part, n its integer part;         *)
(*   "inf"  - Infinity.                                                    *)
(* A literal is read to its exact value, digits * 10^exponent or an        *)
(* integer of radix 16, 8 or 2, and then rounded to the nearest double,    *)
(* ties to even.                                                           *)
(***************************************************************************)
RECURSIVE DigitsValue(_)
DigitsValue(ds) ==
  IF ds = <<>> THEN 0
  ELSE 10 * DigitsValue(SubSeq(ds, 1, Len(ds) - 1)) + DigitVal(ds[Len(ds)])

AllDigits(s) == \A i \in 1..Len(s) : IsDigit(s[i])

ToDigits(s) == [i \in 1..Len(s) |-> DigitVal(s[i])]

NaN == [t |-> "nan", n |-> 0]

Infinity == [t |-> "inf", n |-> 1000000000]

Integral(ds) == [t |-> "int", n |-> NatValue(ds)]

\* the value of a character as a digit of radix 16, or 16
HexVal(c) ==
  IF IsDigit(c) THEN DigitVal(c)
  ELSE CASE c \in {"a", "A"} -> 10
         [] c \in {"b", "B"} -> 11
         [] c \in {"c", "C"} -> 12
         [] c \in {"d", "D"} -> 13
         [] c \in {"e", "E"} -> 14
         [] c \in {"f", "F"} -> 15
         [] OTHER -> 16

\* the exact value of a literal: [kind |-> "nan"], [kind |-> "inf"],
\* [kind |-> "dec", digits, exp] for digits * 10^exp with digits free of
\* leading and trailing zeros, or [kind |-> "radix", radix, digits] with
\* digits the values of the characters after the prefix
NotALiteral == [kind |-> "nan"]

ExactDecimal(ip, fp, exponent) ==
  LET all == StripLeadingZeros(ToDigits(ip \o fp))
      digits == StripTrailingZeros(all)
  IN [kind |-> "dec", digits |-> digits,
      exp |-> IF digits = <<>> THEN 0
              ELSE exponent - Len(fp) + (Len(all) - Len(digits))]

\* the mantissa of a decimal literal: digits, digits '.' digits?, '.' digits
ExactMantissa(s, exponent) ==
  IF \E i \in 1..Len(s) : s[i] = "."
  THEN LET p == CHOOSE i \in 1..Len(s) : s[i] = "." /\ \A j \in 1..(i - 1) : s[j] # "."
           ip == SubSeq(s, 1, p - 1)
           fp == SubSeq(s, p + 1, Len(s))
       IN IF AllDigits(ip) /\ AllDigits(fp) /\ (ip # <<>> \/ fp # <<>>)
          THEN ExactDecimal(ip, fp, exponent)
          ELSE NotALiteral
  ELSE IF s # <<>> /\ AllDigits(s) THEN ExactDecimal(s, <<>>, exponent)
  ELSE NotALiteral

\* StrUnsignedDecimalLiteral: Infinity, or a mantissa and an optional
\* exponent part: e or E, an optional +, digits
ExactUnsigned(s) ==
  IF s = <<"I", "n", "f", "i", "n", "i", "t", "y">> THEN [kind |-> "inf"]
  ELSE IF \E i \in 1..Len(s) : s[i] \in {"e", "E"}
  THEN LET p == CHOOSE i \in 1..Len(s) :
                  s[i] \in {"e", "E"} /\ \A j \in 1..(i - 1) : s[j] \notin {"e", "E"}
           rest == SubSeq(s, p + 1, Len(s))
           ed == IF rest # <<>> /\ Head(rest) = "+" THEN Tail(rest) ELSE rest
       IN IF ed # <<>> /\ AllDigits(ed)
          THEN ExactMantissa(SubSeq(s, 1, p - 1),
                             NatValue(StripLeadingZeros(ToDigits(ed))))
          ELSE NotALiteral
  ELSE ExactMantissa(s, 0)

\* NonDecimalIntegerLiteral: 0x, 0o or 0b, either case, and digits of the radix
ExactRadix(s, radix) ==
  LET ds == [i \in 1..(Len(s) - 2) |-> HexVal(s[i + 2])]
  IN IF Len(s) > 2 /\ \A i \in 1..Len(ds) : ds[i] < radix
     THEN [kind |-> "radix", radix |-> radix, digits |-> ds]
     ELSE NotALiteral

\* StringNumericLiteral: nothing (the value 0), a decimal literal with an
\* optional sign, or a non-decimal literal without one
Exact(s) ==
  IF s = <<>> THEN ExactDecimal(<<>>, <<>>, 0)
  ELSE IF Len(s) >= 2 /\ s[1] = "0" /\ s[2] \in {"x", "X"} THEN ExactRadix(s, 16)
  ELSE IF Len(s) >= 2 /\ s[1] = "0" /\ s[2] \in {"o", "O"} THEN ExactRadix(s, 8)
  ELSE IF Len(s) >= 2 /\ s[1] = "0" /\ s[2] \in {"b", "B"} THEN ExactRadix(s, 2)
  ELSE IF s # <<>> /\ Head(s) = "+" THEN ExactUnsigned(Tail(s))
  ELSE ExactUnsigned(s)

\* the bits of digits of radix 16, 8 or 2: 4, 3 or 1 for each digit
BitsOf(ds, radix) ==
  LET w == IF radix = 16 THEN 4 ELSE IF radix = 8 THEN 3 ELSE 1
      weight(j) == IF j = 0 THEN 1 ELSE IF j = 1 THEN 2 ELSE IF j = 2 THEN 4 ELSE 8
  IN <<>> \o [i \in 1..(w * Len(ds)) |->
                (ds[(i - 1) \div w + 1] \div weight(w - 1 - ((i - 1) % w))) % 2]

\* the value of at most 30 bits
RECURSIVE BitsValue(_)
BitsValue(bits) ==
  IF bits = <<>> THEN 0
  ELSE 2 * BitsValue(SubSeq(bits, 1, Len(bits) - 1)) + bits[Len(bits)]

\* the value of bits without leading zeros, 10^9 from there on
RadixValue(bits) ==
  IF Len(bits) > 30 \/ BitsValue(bits) > 1000000000 THEN 1000000000
  ELSE BitsValue(bits)

\* a non-decimal literal as a double: Infinity from 2^1024 - 2^970 on (1024
\* bits of which the first 54 are set), else an integer
RoundRadix(ds, radix) ==
  LET bits == StripLeadingZeros(BitsOf(ds, radix))
  IN IF \/ Len(bits) > 1024
        \/ Len(bits) = 1024 /\ \A i \in 1..54 : bits[i] = 1
     THEN Infinity
     ELSE [t |-> "int", n |-> RadixValue(bits)]

\* half the distance between neighbouring doubles, 2^(-m), as the digits
\* after the decimal point of 5^m / 10^m
HalfUlp(m) == PadLeft(PowerOf(5, m), m, 0)

LeadingZeros(ds) == Len(ds) - Len(StripLeadingZeros(ds))

\* digits * 10^exp with exp < 0 as a double: ip its integer part, fp the
\* digits of its fractional part (not all zero).  From 2^52 on every double
\* is an integer.  Below, with 2^k <= ip < 2^(k+1), the value rounds to ip
\* when fp <= 2^(k-53) and to ip + 1 when 1 - fp <= 2^(k-53); below 1 it
\* rounds to 0 when fp <= 2^(-1075) and to 1 when 1 - fp <= 2^(-54).
RoundFraction(ip, fp) ==
  IF Overflows(ip) THEN Infinity
  ELSE IF NatLeq(PowerOf(2, 52), ip) THEN [t |-> "int", n |-> 1000000000]
  ELSE LET up == HalfUlp(IF ip = <<>> THEN 54 ELSE 53 - Log2Floor(ip))
           width == IF Len(fp) > Len(up) THEN Len(fp) ELSE Len(up)
           toNext == [i \in 1..Len(fp) |-> 9 - fp[i]]
           roundsDown ==
             IF ip = <<>>
             THEN /\ LeadingZeros(fp) >= 323
                  /\ LET down == HalfUlp(1075)
                         w == IF Len(fp) > Len(down) THEN Len(fp) ELSE Len(down)
                     IN LexLeq(PadRight(fp, w, 0), PadRight(down, w, 0))
             ELSE LexLeq(PadRight(fp, width, 0), PadRight(up, width, 0))
           roundsUp == LexLess(PadRight(toNext, width, 9), PadRight(up, width, 0))
       IN IF roundsDown THEN Integral(ip)
          ELSE IF roundsUp
               THEN [t |-> "int", n |-> IF NatValue(ip) = 1000000000 THEN 1000000000
                                        ELSE NatValue(ip) + 1]
          ELSE [t |-> "frac", n |-> NatValue(ip)]

\* digits * 10^exp as a double
RoundDecimal(digits, exp) ==
  IF digits = <<>> THEN Integral(<<>>)
  ELSE IF exp >= 0
  THEN IF Len(digits) + exp > Len(OverflowBoundary) THEN Infinity
       ELSE LET all == PadRight(digits, Len(digits) + exp, 0)
            IN IF Overflows(all) THEN Infinity ELSE Integral(all)
  ELSE LET f == 0 - exp
       IN IF Len(digits) > f
          THEN RoundFraction(SubSeq(digits, 1, Len(digits) - f),
                             SubSeq(digits, Len(digits) - f + 1, Len(digits)))
          ELSE RoundFraction(<<>>, PadLeft(digits, f, 0))

Round(x) ==
  CASE x.kind = "nan" -> NaN
    [] x.kind = "inf" -> Infinity
    [] x.kind = "radix" -> RoundRadix(x.digits, x.radix)
    [] OTHER -> RoundDecimal(x.digits, x.exp)

ToNumber(s) == Round(Exact(s))

\* numbersStr.map(Number)
RECURSIVE MapNumber(_)
MapNumber(toks) ==
  IF toks = <<>> THEN <<>> ELSE <<ToNumber(Head(toks))>> \o MapNumber(Tail(toks))


\* insertion of x into an ascending list, after its equals
RECURSIVE InsertAsc(_, _)
InsertAsc(x, xs) ==
  IF xs = <<>> THEN <<x>>
  ELSE IF x < Head(xs) THEN <<x>> \o xs
  ELSE <<Head(xs)>> \o InsertAsc(x, Tail(xs))

\* Array.prototype.sort((a, b) => a - b)
RECURSIVE SortAsc(_)
SortAsc(xs) ==
  IF xs = <<>> THEN <<>>
  ELSE InsertAsc(xs[Len(xs)], SortAsc(SubSeq(xs, 1, Len(xs) - 1)))

Range(f) == {f[i] : i \in DOMAIN f}

(***************************************************************************)
(* validateAndParseDraw(input, game): a draw, or an error.                 *)
(***************************************************************************)
Ok(draw) == [ok |-> TRUE, draw |-> draw, error |-> "none"]

Err(kind) == [ok |-> FALSE, draw |-> <<>>, error |-> kind]

Values(numbers) == [i \in 1..Len(numbers) |-> numbers[i].n]

\* a validator that forgets the range test
validateAndParseDraw_NoRangeCheck(in, g) ==
  LET count == IF g.id = "3d" THEN 3 ELSE g.numbersToPick
      checked(numbersStr, numbers) ==
        IF Len(numbersStr) # count THEN Err("WrongCount")
        ELSE IF \E i \in 1..Len(numbers) : numbers[i].t = "nan" THEN Err("NotNumeric")
        ELSE IF \E i \in 1..Len(numbers) : numbers[i].t # "int" THEN Err("OutOfRange")
        ELSE IF g.id # "3d" /\ ~g.isOrderSignificant
                /\ Cardinality(Range(Values(numbers))) # Len(numbers)
             THEN Err("DuplicateValue")
        ELSE Ok(IF g.id = "3d" \/ g.isOrderSignificant THEN Values(numbers)
                ELSE SortAsc(Values(numbers)))
  IN checked(Tokens(in), MapNumber(Tokens(in)))

validateAndParseDraw(in, g) ==
  LET checked(numbersStr, numbers) ==
        IF g.id = "3d"
        THEN IF Len(numbersStr) # 3 THEN Err("WrongCount")
             ELSE IF \E i \in 1..Len(numbers) : numbers[i].t = "nan"
                  THEN Err("NotNumeric")
             ELSE IF \E i \in 1..Len(numbers) :
                       numbers[i].n < 0 \/ numbers[i].n > 9 \/ numbers[i].t # "int"
                  THEN Err("OutOfRange")
             ELSE Ok(Values(numbers))
        ELSE IF Len(numbersStr) # g.numbersToPick THEN Err("WrongCount")
             ELSE IF \E i \in 1..Len(numbers) : numbers[i].t = "nan"
                  THEN Err("NotNumeric")
             ELSE IF \E i \in 1..Len(numbers) :
                       \/ numbers[i].n < DigitMin(g)
                       \/ numbers[i].n > g.maxNumber
                       \/ numbers[i].t # "int"
                  THEN Err("OutOfRange")
             ELSE IF ~g.isOrderSignificant
                     /\ Cardinality(Range(Values(numbers))) # Len(numbers)
                  THEN Err("DuplicateValue")
             ELSE Ok(IF g.isOrderSignificant THEN Values(numbers)
                     ELSE SortAsc(Values(numbers)))
  IN checked(Tokens(in), MapNumber(Tokens(in)))

(***************************************************************************)
(* processCsvText(text, game): the parsed draws and the per-line errors.   *)
(***************************************************************************)
\* a reader that stops at the first line that fails
RECURSIVE ProcessLines_StopsAtFirstError(_, _, _, _)
ProcessLines_StopsAtFirstError(lines, index, g, acc) ==
  IF index > Len(lines) THEN acc
  ELSE LET step(res) ==
             IF res.ok
             THEN ProcessLines_StopsAtFirstError(lines, index + 1, g,
                    [acc EXCEPT !.parsedDraws = Append(@, res.draw)])
             ELSE [acc EXCEPT !.errors =
                     Append(@, [line |-> index, error |-> res.error])]
       IN step(validateAndParseDraw(lines[index], g))

RECURSIVE ProcessLines(_, _, _, _)
ProcessLines(lines, index, g, acc) ==
  IF index > Len(lines) THEN acc
  ELSE LET step(res) ==
             ProcessLines(lines, index + 1, g,
               IF res.ok
               THEN [acc EXCEPT !.parsedDraws = Append(@, res.draw)]
               ELSE [acc EXCEPT !.errors =
                       Append(@, [line |-> index, error |-> res.error])])
       IN step(validateAndParseDraw(lines[index], g))

processCsvText(txt, g) ==
  ProcessLines(Lines(txt), 1, g, [parsedDraws |-> <<>>, errors |-> <<>>])

(***************************************************************************)
(* Frequency analysis: the body of the recomputation effect.               *)
(***************************************************************************)
RECURSIVE Flatten(_)
Flatten(draws) ==
  IF draws = <<>> THEN <<>> ELSE Head(draws) \o Flatten(Tail(draws))

\* overallCounts[num] after the counting pass
CountOf(num, draws) ==
  LET flat == Flatten(draws)
  IN Cardinality({i \in 1..Len(flat) : flat[i] = num})

\* String(num), the property key of overallCounts
RECURSIVE NumberToKey(_)
NumberToKey(n) ==
  IF n < 10 THEN <<DigitChars[n + 1]>>
  ELSE Append(NumberToKey(n \div 10), DigitChars[(n % 10) + 1])

\* parseInt(numStr) of a key made of digits
parseInt(numStr) == DigitsValue(numStr)

\* the keys of overallCounts in the order Object.entries lists them:
\* integer keys ascending
RECURSIVE AscendingList(_)
AscendingList(S) ==
  IF S = {} THEN <<>>
  ELSE LET m == CHOOSE x \in S : \A y \in S : x <= y
       IN <<NumberToKey(m)>> \o AscendingList(S \ {m})

\* (a, b) => b.count - a.count || a.number - b.number, as "a sorts before b"
FrequencyBefore(a, b) ==
  IF b.count - a.count # 0 THEN b.count - a.count < 0
  ELSE a.number - b.number < 0

RECURSIVE InsertFrequency(_, _)
InsertFrequency(e, es) ==
  IF es = <<>> THEN <<e>>
  ELSE IF FrequencyBefore(e, Head(es)) THEN <<e>> \o es
  ELSE <<Head(es)>> \o InsertFrequency(e, Tail(es))

\* a sort that leaves the entries in the order of Object.entries
SortFrequency_Unsorted(es) == es

RECURSIVE SortFrequency(_)
SortFrequency(es) ==
  IF es = <<>> THEN <<>>
  ELSE InsertFrequency(es[Len(es)], SortFrequency(SubSeq(es, 1, Len(es) - 1)))

\* (count / totalDigitsAnalyzed) * 100, kept as the exact fraction num/den
Percentage(count, totalDigitsAnalyzed) ==
  IF totalDigitsAnalyzed > 0
  THEN [num |-> count * 100, den |-> totalDigitsAnalyzed]
  ELSE [num |-> 0, den |-> 1]

newFrequencyData(draws) ==
  LET totalDigitsAnalyzed == Len(Flatten(draws))
      keys == AscendingList(Range(Flatten(draws)))
      entries == [i \in 1..Len(keys) |->
                    LET number == parseInt(keys[i])
                        count == CountOf(number, draws)
                    IN [number |-> number, count |-> count,
                        percentage |-> Percentage(count, totalDigitsAnalyzed)]]
  IN SortFrequency(entries)

\* hot digits left in the order of the frequency data
topHotDigits_Unsorted(fd, numbersToPick) ==
  LET k == IF numbersToPick < Len(fd) THEN numbersToPick ELSE Len(fd)
  IN [i \in 1..k |-> fd[i].number]

\* newFrequencyData.slice(0, numbersToPick).map(fd => fd.number).sort((a,b) => a-b)
topHotDigits(fd, numbersToPick) ==
  LET k == IF numbersToPick < Len(fd) THEN numbersToPick ELSE Len(fd)
  IN SortAsc([i \in 1..k |-> fd[i].number])

(***************************************************************************)
(* The recomputation effect: what it sets for the recentDraws and the game *)
(* of the render it belongs to, the state holding (fd, hot, gp, ae).       *)
(***************************************************************************)
NoPrediction == <<>>

Null == "null"

\* an effect that returns at once for an empty collection
RecomputeEffect_KeepsOnEmpty(draws, fd, hot, gp, ae, g) ==
  IF Len(draws) = 0
  THEN [frequencyData |-> fd, hotDigitsPrediction |-> hot,
        geminiPrediction |-> gp, aiError |-> ae]
  ELSE LET fdNew == newFrequencyData(draws)
       IN [frequencyData |-> fdNew,
           hotDigitsPrediction |-> topHotDigits(fdNew, g.numbersToPick),
           geminiPrediction |-> NoPrediction, aiError |-> Null]

RecomputeEffect(draws, fd, hot, gp, ae, g) ==
  IF Len(draws) = 0
  THEN [frequencyData |-> <<>>, hotDigitsPrediction |-> <<>>,
        geminiPrediction |-> gp, aiError |-> ae]
  ELSE LET fdNew == newFrequencyData(draws)
       IN [frequencyData |-> fdNew,
           hotDigitsPrediction |-> topHotDigits(fdNew, g.numbersToPick),
           geminiPrediction |-> NoPrediction, aiError |-> Null]

(***************************************************************************)
(* The prediction requestor.  A response of the external endpoint is       *)
(*   kind "reject" - generateContent rejects with a value of class         *)
(*                   "Error", "SyntaxError" or "other" (no Error at all);  *)
(*   kind "notext" - the answer has no text (response.text is undefined);  *)
(*   kind "syntax" - the text, fences stripped, is not JSON;               *)
(*   kind "null"   - the text, fences stripped, is the JSON text null;     *)
(*   kind "object" - JSON.parse gave a value with the two fields below (a  *)
(*                   field that is absent, as all are of a JSON number,    *)
(*                   string or boolean, is "undefined").                   *)
(* predictedNumbers is [t, a]: t "undefined" (absent), "array" with        *)
(* elements a, or "string" (a truthy value that is no array).  An element  *)
(* is [t, n]: t "int" (integral number n), "frac" (a number with a         *)
(* fractional part, integer part n) or "string" (not a number).            *)
(* analysisSummary is [t, s]: t "undefined", "string" with text s, or      *)
(* "number" (a truthy value that is no string).                            *)
(***************************************************************************)
Int_(n) == [t |-> "int", n |-> n]

Arr(a) == [t |-> "array", a |-> a]

Str(s) == [t |-> "string", s |-> s]

Undefined == [t |-> "undefined"]

\* the negation of !value
TruthyNumbers(pn) == pn.t # "undefined"

TruthySummary(as) ==
  CASE as.t = "undefined" -> FALSE
    [] as.t = "string" -> as.s # ""
    [] OTHER -> TRUE

Prediction(numbers, summary) ==
  [ok |-> TRUE, error |-> "none",
   prediction |-> [predictedNumbers |-> numbers, analysisSummary |-> summary]]

Failure(kind) ==
  [ok |-> FALSE, error |-> kind,
   prediction |-> [predictedNumbers |-> <<>>, analysisSummary |-> Undefined]]

ElementValues(a) == [i \in 1..Len(a) |-> a[i].n]

\* Array.from(new Set(xs)).sort((a, b) => a - b)
RECURSIVE AscendingValues(_)
AscendingValues(S) ==
  IF S = {} THEN <<>>
  ELSE LET m == CHOOSE x \in S : \A y \in S : x <= y
       IN <<m>> \o AscendingValues(S \ {m})

\* what is thrown inside the try block: the class of the error and what
\* its message reports
Thrown(class, kind) == [class |-> class, kind |-> kind]

\* the catch of getGeminiPrediction: the message it throws is chosen by the
\* class of what it caught; the message for a SyntaxError is the one of a
\* text that is no JSON, the two others begin "Failed to get AI prediction"
\* and the one for an Error carries the message caught
Catch(thrown) ==
  IF thrown.class = "SyntaxError" THEN Failure("MalformedResponse")
  ELSE IF thrown.class \in {"Error", "TypeError"} THEN Failure(thrown.kind)
  ELSE Failure("CallFailed")

\* getGeminiPrediction from the response on: what it returns or throws
ValidateResponse(g, resp) ==
  IF resp.kind = "reject" THEN Catch(Thrown(resp.class, "CallFailed"))
  ELSE IF resp.kind = "notext" THEN Catch(Thrown("TypeError", "CallFailed"))
  ELSE IF resp.kind = "syntax" THEN Catch(Thrown("SyntaxError", "MalformedResponse"))
  ELSE IF resp.kind = "null" THEN Catch(Thrown("TypeError", "CallFailed"))
  ELSE LET pn == resp.predictedNumbers
           as == resp.analysisSummary
       IN IF ~TruthyNumbers(pn) \/ ~TruthySummary(as) \/ pn.t # "array"
          THEN Catch(Thrown("Error", "MalformedResponse"))
          ELSE IF g.id = "3d"
          THEN IF Len(pn.a) # 3 THEN Catch(Thrown("Error", "InvalidPredictionValue"))
               ELSE IF \E i \in 1..Len(pn.a) :
                         \/ pn.a[i].t = "string"
                         \/ pn.a[i].n < 0
                         \/ pn.a[i].n > 9
                         \/ pn.a[i].t # "int"
                    THEN Catch(Thrown("Error", "InvalidPredictionValue"))
               ELSE Prediction(ElementValues(pn.a), as)
          ELSE IF Len(pn.a) # g.numbersToPick
               THEN Catch(Thrown("Error", "InvalidPredictionValue"))
               ELSE IF \E i \in 1..Len(pn.a) :
                         \/ pn.a[i].t = "string"
                         \/ pn.a[i].n < DigitMin(g)
                         \/ pn.a[i].n > g.maxNumber
                         \/ pn.a[i].t # "int"
                    THEN Catch(Thrown("Error", "InvalidPredictionValue"))
               ELSE LET uniqueSortedNumbers ==
                          AscendingValues(Range(ElementValues(pn.a)))
                    IN IF Len(uniqueSortedNumbers) # g.numbersToPick
                       THEN Catch(Thrown("Error", "InvalidPredictionValue"))
                       ELSE Prediction(uniqueSortedNumbers, as)

(***************************************************************************)
(* Inputs of the application.                                              *)
(***************************************************************************)
\* what the user may type into the draw field
FormInputs ==
  { <<"1", ",", "2", ",", "3">>,
    <<"3", " ", "1", "-", "1">>,
    <<"0", ",", "9", ",", "1", "0">> }

\* the content of the files the user may upload
ValidFile == <<"3", "-", "1", "-", "1", "\r", "\n", "\n">>

BadLineFile == <<"1", ",", "2", ",", "3", "\n", "1", ",", "2", "\n">>

UploadFiles == {ValidFile, BadLineFile}

\* the bundled sample data
sampleCsvData ==
  <<"3", ",", "1", ",", "1", "\n", "1", ",", "2", ",", "3", "\n">>

\* what the external endpoint may answer
GoodResponse ==
  [kind |-> "object",
   predictedNumbers |-> Arr(<<Int_(1), Int_(1), Int_(2)>>),
   analysisSummary |-> Str("x")]

ShortResponse ==
  [kind |-> "object",
   predictedNumbers |-> Arr(<<Int_(1), Int_(2)>>),
   analysisSummary |-> Str("x")]

NoResponse(kind) ==
  [kind |-> kind, predictedNumbers |-> Undefined, analysisSummary |-> Undefined]

\* generateContent rejects with a value of the given class
Rejection(class) ==
  [kind |-> "reject", class |-> class,
   predictedNumbers |-> Undefined, analysisSummary |-> Undefined]

Responses ==
  {GoodResponse, ShortResponse, NoResponse("syntax"), Rejection("Error"),
   Rejection("SyntaxError")}

(***************************************************************************)
(* The application: one action per handler or callback.  The recomputation *)
(* effect is a callback of its own: a handler that stores a new            *)
(* recentDraws array leaves it pending, with the recentDraws and the game  *)
(* of the render it belongs to.  After a click or a change of an input     *)
(* React (18 and later) runs the pending effects before any other          *)
(* callback.  After reader.onload, and after the first render, other       *)
(* callbacks may run before the effect; the first that does makes React    *)
(* run the effect before anything else, the effect's updates coming after  *)
(* that callback's.                                                        *)
(***************************************************************************)
NoError == ""

selectedGame == selectedGameOf(selectedGameId)

\* the handler that ran, whether it failed, whether it changed the Draw
\* Collection or the active game, and whether an effect ran since
Event(op, failed, changed) ==
  [op |-> op, failed |-> failed, changed |-> changed, effect |-> FALSE]

Changed == recentDraws' # recentDraws \/ selectedGameId' # selectedGameId

\* xs.reverse(): the elements in reverse order
RECURSIVE Reverse(_)
Reverse(xs) ==
  IF xs = <<>> THEN <<>> ELSE Append(Reverse(Tail(xs)), Head(xs))

\* the array draws after `calls` calls of draws.reverse(), which reverses
\* it in place
RECURSIVE ReversedTimes(_, _)
ReversedTimes(draws, calls) ==
  IF calls = 0 THEN draws ELSE ReversedTimes(Reverse(draws), calls - 1)

\* how often React calls the updater of one setRecentDraws: once, or twice
\* (under StrictMode in development, or for an update it rebases); the
\* state is what the last call returned
UpdaterCalls == {1, 2}

\* prevDraws.filter((_, index) => index !== indexToRemove), index from 0
RECURSIVE FilterIndex(_, _, _)
FilterIndex(prevDraws, index, indexToRemove) ==
  IF prevDraws = <<>> THEN <<>>
  ELSE IF index # indexToRemove
       THEN <<Head(prevDraws)>> \o FilterIndex(Tail(prevDraws), index + 1, indexToRemove)
       ELSE FilterIndex(Tail(prevDraws), index + 1, indexToRemove)

\* a removal that counts a negative index from the end, as splice does
RemoveIndex_Splice(prevDraws, indexToRemove) ==
  FilterIndex(prevDraws, 0,
              IF indexToRemove < 0 THEN Len(prevDraws) + indexToRemove
              ELSE indexToRemove)

RemoveIndex(prevDraws, indexToRemove) == FilterIndex(prevDraws, 0, indexToRemove)

RemoveAt(xs, i) == SubSeq(xs, 1, i - 1) \o SubSeq(xs, i + 1, Len(xs))

\* a request in flight is stale once the collection or the game changed
MarkStale(reqs, changed) ==
  [i \in 1..Len(reqs) |-> [reqs[i] EXCEPT !.stale = @ \/ changed]]

\* the effect of a render with the given recentDraws and game
EffectOf(draws, g) == [draws |-> draws, game |-> g, forced |-> FALSE]

\* a callback updated the state: React runs the pending effects before it
\* renders the update, and before any other callback
Flush(effects) == [i \in 1..Len(effects) |-> [effects[i] EXCEPT !.forced = TRUE]]

\* the handlers of a click or of a change of an input
Discrete(op) ==
  op \in {"handleAddDraw", "handleFileUpload", "handleLoadSampleData",
          "handleRemoveDraw", "handleClearDraws", "handleGameChange",
          "handleGetGeminiPrediction"}

\* no effect and no continuation of an await on a settled promise has to
\* run first
Ready ==
  /\ \A i \in 1..Len(inFlight) : inFlight[i].sent
  /\ \/ pendingEffects = <<>>
     \/ /\ ~Discrete(lastEvent.op)
        /\ \A i \in 1..Len(pendingEffects) : ~pendingEffects[i].forced

\* the App after a handler replaced recentDraws by draws and set
\* (fd, hot, gp, ae): the effect of the new array is pending, requests in
\* flight become stale
StoreDraws(draws, fd, hot, gp, ae, gameId) ==
  /\ recentDraws' = draws
  /\ selectedGameId' = gameId
  /\ frequencyData' = fd
  /\ hotDigitsPrediction' = hot
  /\ geminiPrediction' = gp
  /\ aiError' = ae
  /\ inFlight' = MarkStale(inFlight,
                           draws # recentDraws \/ gameId # selectedGameId)
  /\ pendingEffects' = Append(Flush(pendingEffects),
                              EffectOf(draws, selectedGameOf(gameId)))

\* a handler that stores no recentDraws array
KeepDraws ==
  /\ pendingEffects' = Flush(pendingEffects)
  /\ UNCHANGED <<selectedGameId, recentDraws, frequencyData, hotDigitsPrediction>>

\* the recomputation effect that is pending longest
useEffect ==
  /\ pendingEffects # <<>>
  /\ LET effect == Head(pendingEffects)
         after == RecomputeEffect(effect.draws, frequencyData, hotDigitsPrediction,
                                  geminiPrediction, aiError, effect.game)
     IN /\ frequencyData' = after.frequencyData
        /\ hotDigitsPrediction' = after.hotDigitsPrediction
        /\ geminiPrediction' = after.geminiPrediction
        /\ aiError' = after.aiError
  /\ pendingEffects' = Tail(pendingEffects)
  /\ lastEvent' = [lastEvent EXCEPT !.effect = TRUE]
  /\ UNCHANGED <<selectedGameId, recentDraws, isLoadingAiPrediction, ai, inFlight,
                 error, fileError, sampleDataError, pendingReads, fnVars>>

AppInit ==
  /\ selectedGameId = DEFAULT_GAME_ID
  /\ recentDraws = <<>>
  /\ frequencyData = <<>>
  /\ hotDigitsPrediction = <<>>
  /\ geminiPrediction = NoPrediction
  /\ isLoadingAiPrediction = FALSE
  /\ aiError = Null
  /\ ai \in BOOLEAN
  /\ inFlight = <<>>
  /\ error = NoError
  /\ fileError = NoError
  /\ sampleDataError = NoError
  /\ pendingReads = <<>>
  /\ pendingEffects = <<EffectOf(<<>>, selectedGameOf(DEFAULT_GAME_ID))>>
  /\ lastEvent = Event("init", FALSE, FALSE)

FnIdle ==
  /\ input = <<>>
  /\ game = Game3d
  /\ result = Err("pending")
  /\ text = <<>>
  /\ csv = [parsedDraws |-> <<>>, errors |-> <<>>]
  /\ batch = <<>>
  /\ response = Rejection("Error")

Init == AppInit /\ FnIdle

\* App.handleAddDraw
handleAddDraw(draw) ==
  StoreDraws(<<draw>> \o recentDraws, frequencyData, hotDigitsPrediction,
             geminiPrediction, aiError, selectedGameId)

\* App.handleAddMultipleDraws, its updater
\* prevDraws => [...draws.reverse(), ...prevDraws] called `calls` times
handleAddMultipleDraws(draws, calls) ==
  StoreDraws(ReversedTimes(draws, calls) \o recentDraws, frequencyData,
             hotDigitsPrediction, geminiPrediction, aiError, selectedGameId)

\* validateAndParseDraw(currentDrawInput, selectedGame), evaluated once for
\* every text the user may type and every game of the catalog
ParsedFormInputs ==
  [g \in Range(LOTTO_GAMES) |->
     [in \in FormInputs |-> validateAndParseDraw(in, g)]]

\* LottoForm.handleAddDraw: the Add Draw button with currentDrawInput = in
FormAddDraw(in) ==
  \E res \in {ParsedFormInputs[selectedGame][in]} :
     /\ Ready
     /\ res.ok => Len(recentDraws) < MaxDraws
     /\ error' = IF res.ok THEN NoError ELSE res.error
     /\ IF res.ok THEN handleAddDraw(res.draw)
        ELSE KeepDraws /\ UNCHANGED <<geminiPrediction, aiError, inFlight>>
     /\ lastEvent' = Event("handleAddDraw", ~res.ok, Changed)
     /\ UNCHANGED <<isLoadingAiPrediction, ai, fileError, sampleDataError,
                    pendingReads, fnVars>>

\* LottoForm.handleFileUpload with a file chosen: the read starts
handleFileUpload(file) ==
  /\ Ready
  /\ Len(pendingReads) < MaxPendingReads
  /\ fileError' = NoError
  /\ sampleDataError' = NoError
  /\ pendingReads' = Append(pendingReads, [text |-> file, game |-> selectedGame])
  /\ lastEvent' = Event("handleFileUpload", FALSE, FALSE)
  /\ KeepDraws
  /\ UNCHANGED <<geminiPrediction, isLoadingAiPrediction, aiError, ai, inFlight,
                 error, fnVars>>

\* LottoForm.handleFileUpload with no file chosen
handleFileUploadNoFile ==
  /\ Ready
  /\ fileError' = NoError
  /\ sampleDataError' = NoError
  /\ lastEvent' = Event("handleFileUpload", FALSE, FALSE)
  /\ KeepDraws
  /\ UNCHANGED <<geminiPrediction, isLoadingAiPrediction, aiError, ai, inFlight,
                 error, pendingReads, fnVars>>

\* processCsvText(text, selectedGame), evaluated once for every text that
\* may be loaded and every game of the catalog
ParsedBulkTexts ==
  [g \in Range(LOTTO_GAMES) |->
     [txt \in UploadFiles \cup {sampleCsvData} |-> processCsvText(txt, g)]]

\* the outcome of a bulk load of txt parsed for game g: an error, or the draws
BulkOutcome(txt, g, emptyError, errorsError, noneError) ==
  LET outcome(parsed) ==
        IF txt = <<>> THEN [error |-> emptyError, draws |-> <<>>]
        ELSE IF Len(parsed.errors) > 0 THEN [error |-> errorsError, draws |-> <<>>]
        ELSE IF Len(parsed.parsedDraws) = 0 THEN [error |-> noneError, draws |-> <<>>]
        ELSE [error |-> NoError, draws |-> parsed.parsedDraws]
  IN outcome(ParsedBulkTexts[g][txt])

\* an upload that keeps the valid lines of a file with errors
readerOnLoad_KeepsValidLines(i) ==
  \E parsed \in {ParsedBulkTexts[pendingReads[i].game][pendingReads[i].text]} :
     /\ Ready
     /\ Len(recentDraws) + Len(parsed.parsedDraws) <= MaxDraws
     /\ fileError' = IF Len(parsed.errors) > 0 THEN "ErrorsInCsv" ELSE NoError
     /\ \E calls \in UpdaterCalls : handleAddMultipleDraws(parsed.parsedDraws, calls)
     /\ pendingReads' = RemoveAt(pendingReads, i)
     /\ lastEvent' = Event("readerOnLoad", Len(parsed.errors) > 0, Changed)
     /\ UNCHANGED <<isLoadingAiPrediction, ai, error, sampleDataError, fnVars>>

\* reader.onload of the i-th pending read
readerOnLoad(i) ==
  \E out \in {BulkOutcome(pendingReads[i].text, pendingReads[i].game,
                          "CouldNotRead", "ErrorsInCsv", "EmptyCsv")} :
     /\ Ready
     /\ out.error = NoError => Len(recentDraws) + Len(out.draws) <= MaxDraws
     /\ fileError' = out.error
     /\ IF out.error = NoError
        THEN \E calls \in UpdaterCalls : handleAddMultipleDraws(out.draws, calls)
        ELSE KeepDraws /\ UNCHANGED <<geminiPrediction, aiError, inFlight>>
     /\ pendingReads' = RemoveAt(pendingReads, i)
     /\ lastEvent' = Event("readerOnLoad", out.error # NoError, Changed)
     /\ UNCHANGED <<isLoadingAiPrediction, ai, error, sampleDataError, fnVars>>

\* reader.onerror of the i-th pending read
readerOnError(i) ==
  /\ Ready
  /\ fileError' = "FailedToRead"
  /\ pendingReads' = RemoveAt(pendingReads, i)
  /\ lastEvent' = Event("readerOnError", TRUE, FALSE)
  /\ KeepDraws
  /\ UNCHANGED <<geminiPrediction, isLoadingAiPrediction, aiError, ai, inFlight,
                 error, sampleDataError, fnVars>>

\* LottoForm.handleLoadSampleData
handleLoadSampleData ==
  \E out \in {BulkOutcome(sampleCsvData, selectedGame, "SampleEmpty",
                          "ErrorsInSample", "SampleNoDraws")} :
     /\ Ready
     /\ out.error = NoError => Len(recentDraws) + Len(out.draws) <= MaxDraws
     /\ fileError' = NoError
     /\ sampleDataError' = out.error
     /\ IF out.error = NoError
        THEN \E calls \in UpdaterCalls : handleAddMultipleDraws(out.draws, calls)
        ELSE KeepDraws /\ UNCHANGED <<geminiPrediction, aiError, inFlight>>
     /\ lastEvent' = Event("handleLoadSampleData", out.error # NoError, Changed)
     /\ UNCHANGED <<isLoadingAiPrediction, ai, error, pendingReads, fnVars>>

\* App.handleRemoveDraw
handleRemoveDraw(indexToRemove) ==
  /\ Ready
  /\ StoreDraws(RemoveIndex(recentDraws, indexToRemove), frequencyData,
                hotDigitsPrediction, geminiPrediction, aiError, selectedGameId)
  /\ lastEvent' = Event("handleRemoveDraw", FALSE, Changed)
  /\ UNCHANGED <<isLoadingAiPrediction, ai, error, fileError, sampleDataError,
                 pendingReads, fnVars>>

\* App.handleClearDraws
handleClearDraws ==
  /\ Ready
  /\ StoreDraws(<<>>, <<>>, <<>>, NoPrediction, Null, selectedGameId)
  /\ lastEvent' = Event("handleClearDraws", FALSE, Changed)
  /\ UNCHANGED <<isLoadingAiPrediction, ai, error, fileError, sampleDataError,
                 pendingReads, fnVars>>

\* a game change that forgets to reset the prediction and its error
handleGameChange_KeepsPrediction(gameId) ==
  /\ Ready
  /\ StoreDraws(<<>>, <<>>, <<>>, geminiPrediction, aiError, gameId)
  /\ lastEvent' = Event("handleGameChange", FALSE, Changed)
  /\ UNCHANGED <<isLoadingAiPrediction, ai, error, fileError, sampleDataError,
                 pendingReads, fnVars>>

\* a game change that forgets to empty the frequency data and the hot digits
handleGameChange_KeepsAnalysis(gameId) ==
  /\ Ready
  /\ StoreDraws(<<>>, frequencyData, hotDigitsPrediction, NoPrediction, Null, gameId)
  /\ lastEvent' = Event("handleGameChange", FALSE, Changed)
  /\ UNCHANGED <<isLoadingAiPrediction, ai, error, fileError, sampleDataError,
                 pendingReads, fnVars>>

\* App.handleGameChange
handleGameChange(gameId) ==
  /\ Ready
  /\ StoreDraws(<<>>, <<>>, <<>>, NoPrediction, Null, gameId)
  /\ lastEvent' = Event("handleGameChange", FALSE, Changed)
  /\ UNCHANGED <<isLoadingAiPrediction, ai, error, fileError, sampleDataError,
                 pendingReads, fnVars>>

\* the request path of handleGetGeminiPrediction: minDraws is the length the
\* caller requires, checksClient whether getGeminiPrediction tests `ai`
RequestPrediction_Variant(minDraws, checksClient) ==
  /\ Ready
  /\ IF Len(recentDraws) < minDraws
     THEN /\ aiError' = "InsufficientData"
          /\ UNCHANGED <<geminiPrediction, isLoadingAiPrediction, inFlight>>
     ELSE /\ Len(inFlight) < MaxInFlight
          /\ aiError' = Null
          /\ geminiPrediction' = NoPrediction
          /\ isLoadingAiPrediction' = TRUE
          /\ inFlight' = Append(inFlight,
                                [game |-> selectedGame, stale |-> FALSE,
                                 sent |-> ai \/ ~checksClient])
  /\ lastEvent' = Event("handleGetGeminiPrediction", Len(recentDraws) < minDraws, FALSE)
  /\ KeepDraws
  /\ UNCHANGED <<ai, error, fileError, sampleDataError, pendingReads, fnVars>>

\* a requestor that calls the endpoint without testing for the client
handleGetGeminiPrediction_NoClientCheck == RequestPrediction_Variant(3, FALSE)

\* a caller that asks for two draws only
handleGetGeminiPrediction_TwoDraws == RequestPrediction_Variant(2, TRUE)

\* App.handleGetGeminiPrediction up to the await: the length check, the
\* three resets, and getGeminiPrediction up to its call of the endpoint
\* (sent) or up to its throw for want of a client (not sent: the promise
\* awaited is rejected already)
handleGetGeminiPrediction ==
  /\ Ready
  /\ IF Len(recentDraws) < 3
     THEN /\ aiError' = "InsufficientData"
          /\ UNCHANGED <<geminiPrediction, isLoadingAiPrediction, inFlight>>
     ELSE /\ Len(inFlight) < MaxInFlight
          /\ aiError' = Null
          /\ geminiPrediction' = NoPrediction
          /\ isLoadingAiPrediction' = TRUE
          /\ inFlight' = Append(inFlight,
                                [game |-> selectedGame, stale |-> FALSE,
                                 sent |-> ai])
  /\ lastEvent' = Event("handleGetGeminiPrediction", Len(recentDraws) < 3, FALSE)
  /\ KeepDraws
  /\ UNCHANGED <<ai, error, fileError, sampleDataError, pendingReads, fnVars>>

\* getGeminiPrediction threw for want of a client: catch and finally of
\* handleGetGeminiPrediction, the continuation of its await.  It runs once
\* React has rendered what the handler set and has run the pending
\* effects, and before any other callback.
clientNotInitialized(i) ==
  /\ ~inFlight[i].sent
  /\ pendingEffects = <<>>
  /\ aiError' = "ServiceUnavailable"
  /\ isLoadingAiPrediction' = FALSE
  /\ inFlight' = RemoveAt(inFlight, i)
  /\ lastEvent' = Event("clientNotInitialized", TRUE, FALSE)
  /\ KeepDraws
  /\ UNCHANGED <<geminiPrediction, ai, error, fileError, sampleDataError,
                 pendingReads, fnVars>>

\* the endpoint answers the i-th request in flight with resp:
\* getGeminiPrediction from the response on, then the rest of
\* handleGetGeminiPrediction (setGeminiPrediction or catch, then finally)
responseArrives(i, resp) ==
  LET request == inFlight[i]
      res == ValidateResponse(request.game, resp)
  IN /\ Ready
     /\ IF res.ok
        THEN /\ geminiPrediction' = <<res.prediction>>
             /\ UNCHANGED aiError
        ELSE /\ aiError' = res.error
             /\ UNCHANGED geminiPrediction
     /\ isLoadingAiPrediction' = FALSE
     /\ inFlight' = RemoveAt(inFlight, i)
     /\ lastEvent' = Event("responseArrives", ~res.ok, FALSE)
     /\ KeepDraws
     /\ UNCHANGED <<ai, error, fileError, sampleDataError, pendingReads, fnVars>>

Next ==
  \/ \E in \in FormInputs : FormAddDraw(in)
  \/ \E file \in UploadFiles : handleFileUpload(file)
  \/ handleFileUploadNoFile
  \/ \E i \in 1..Len(pendingReads) : readerOnLoad(i)
  \/ \E i \in 1..Len(pendingReads) : readerOnError(i)
  \/ handleLoadSampleData
  \/ \E indexToRemove \in -1..Len(recentDraws) : handleRemoveDraw(indexToRemove)
  \/ handleClearDraws
  \/ \E gameId \in {LOTTO_GAMES[i].id : i \in 1..Len(LOTTO_GAMES)} :
       handleGameChange(gameId)
  \/ handleGetGeminiPrediction
  \/ \E i \in 1..Len(inFlight) : clientNotInitialized(i)
  \/ \E i \in 1..Len(inFlight) : \E resp \in Responses : responseArrives(i, resp)
  \/ useEffect

Spec == Init /\ [][Next]_vars

(***************************************************************************)
(* handleAddMultipleDraws on its own: any collection, any batch of draws.  *)
(***************************************************************************)
SeqsUpTo(S, lo, hi) == UNION {[1..n -> S] : n \in lo..hi}

DrawSet == {<<1, 2, 3>>, <<3, 1, 1>>, <<4, 5, 6>>}

AppAt(collection) ==
  LET after == RecomputeEffect(collection, <<>>, <<>>, NoPrediction, Null, Game3d)
  IN /\ selectedGameId = DEFAULT_GAME_ID
     /\ recentDraws = collection
     /\ frequencyData = after.frequencyData
     /\ hotDigitsPrediction = after.hotDigitsPrediction
     /\ geminiPrediction = NoPrediction
     /\ isLoadingAiPrediction = FALSE
     /\ aiError = Null
     /\ ai = FALSE
     /\ inFlight = <<>>
     /\ error = NoError
     /\ fileError = NoError
     /\ sampleDataError = NoError
     /\ pendingReads = <<>>
     /\ pendingEffects = <<>>
     /\ lastEvent = Event("init", FALSE, FALSE)

InsertInit ==
  /\ \E collection \in SeqsUpTo(DrawSet, 0, MaxDraws) : AppAt(collection)
  /\ batch \in SeqsUpTo(DrawSet, 1, MaxLines)
  /\ input = <<>>
  /\ game = Game3d
  /\ result = Err("pending")
  /\ text = <<>>
  /\ csv = [parsedDraws |-> <<>>, errors |-> <<>>]
  /\ response = Rejection("Error")

InsertMany ==
  /\ lastEvent.op = "init"
  /\ Ready
  /\ \E calls \in UpdaterCalls :
       /\ handleAddMultipleDraws(batch, calls)
       /\ batch' = ReversedTimes(batch, calls)
  /\ lastEvent' = Event("handleAddMultipleDraws", FALSE, Changed)
  /\ UNCHANGED <<isLoadingAiPrediction, ai, error, fileError, sampleDataError,
                 pendingReads, input, game, result, text, csv, response>>

SpecInsert == InsertInit /\ [][InsertMany]_vars

(***************************************************************************)
(* validateAndParseDraw on its own: any text up to MaxInputLen characters  *)
(* of ParseChars, the texts of ExtraInputs, and any game of ParseGames.    *)
(***************************************************************************)
ParseChars == {"0", "1", "2", "3", ",", "a"}

\* "1.0000000000000000001" and "0.99999999999999999999": no integers, and
\* nearer to 1 than to any other double
NearOne ==
  <<"1", ".", "0", "0", "0", "0", "0", "0", "0", "0", "0", "0", "0", "0", "0", "0",
    "0", "0", "0", "0", "0", "1">>

BelowOne ==
  <<"0", ".", "9", "9", "9", "9", "9", "9", "9", "9", "9", "9", "9", "9", "9", "9",
    "9", "9", "9", "9", "9", "9", "9">>

ExtraInputs ==
  { <<"0", ",", "9", ",", "1", "0">>,
    <<"1", ",", "a", ",", "1", "0">>,
    <<"+", "1", " ", "2", "-", "3">>,
    <<" ", "3", "\t", "1", "-", "2", " ">>,
    <<"1", ",", ".", "5", ",", "2">>,
    <<"1", ".", "0", ",", "2", ".", ",", "3">>,
    <<"1", ",", "1", ",", "1", ".", "5">>,
    <<"3", ",", " ", "1", ",", " ", "2">>,
    <<"1", ",", "2", ",", "3", ",", "4">>,
    <<"1", "e", "0", ",", "2", ",", "3">>,
    <<"1", "e", "1", ",", "2", ",", "3">>,
    <<"0", "x", "1", ",", "2", ",", "0", "b", "1", "1">>,
    <<"I", "n", "f", "i", "n", "i", "t", "y", ",", "1", ",", "2">>,
    <<"1", "\f", "2", "U+00A0", "3">>,
    <<"U+FEFF", "2", "U+2028", "U+000B", "1">>,
    NearOne \o <<",", "2", ",", "3">>,
    NearOne \o <<",", "1", ",", "2">>,
    BelowOne \o <<",", "2", ",", "3">> }

ParseInit ==
  /\ AppAt(<<>>)
  /\ input \in SeqsUpTo(ParseChars, 0, MaxInputLen) \cup ExtraInputs
  /\ game \in ParseGames
  /\ result = Err("pending")
  /\ text = <<>>
  /\ csv = [parsedDraws |-> <<>>, errors |-> <<>>]
  /\ batch = <<>>
  /\ response = Rejection("Error")

Validate ==
  /\ result.error = "pending"
  /\ result' = validateAndParseDraw(input, game)
  /\ UNCHANGED <<appVars, input, game, text, csv, batch, response>>

SpecParse == ParseInit /\ [][Validate]_vars

(***************************************************************************)
(* processCsvText on its own: any text of up to MaxLines lines of CsvLines *)
(* each followed by a line break or by nothing, and any game of ParseGames.*)
(***************************************************************************)
CsvLines ==
  { <<"1", ",", "2", ",", "3">>,
    <<"3", "-", "1", "-", "2", " ">>,
    <<"1", ",", "2">>,
    <<"a", ",", "b", ",", "c">>,
    <<" ">>,
    <<>> }

LineBreaks == {<<"\n">>, <<"\r", "\n">>, <<>>}

RECURSIVE CsvTexts(_)
CsvTexts(n) ==
  IF n = 0 THEN {<<>>}
  ELSE {<<>>} \cup {line \o br \o rest :
                      line \in CsvLines, br \in LineBreaks, rest \in CsvTexts(n - 1)}

CsvPending ==
  [parsedDraws |-> <<>>, errors |-> <<[line |-> 0, error |-> "pending"]>>]

BatchInit ==
  /\ AppAt(<<>>)
  /\ text \in CsvTexts(MaxLines)
  /\ game \in ParseGames
  /\ csv = CsvPending
  /\ input = <<>>
  /\ result = Err("pending")
  /\ batch = <<>>
  /\ response = Rejection("Error")

ProcessCsv ==
  /\ csv = CsvPending
  /\ csv' = processCsvText(text, game)
  /\ UNCHANGED <<appVars, input, game, result, text, batch, response>>

SpecBatch == BatchInit /\ [][ProcessCsv]_vars

(***************************************************************************)
(* The recomputation effect on its own: any collection of up to MaxDraws   *)
(* draws of AnalyzeDraws, any game of ParseGames for numbersToPick, and    *)
(* frequency data left over from an earlier render.                        *)
(***************************************************************************)
AnalyzeDraws == {<<1, 2, 3>>, <<4, 5, 6>>, <<3, 1, 1>>, <<2, 10>>, <<9, 9, 9>>}

AnalyzeInit ==
  /\ selectedGameId = DEFAULT_GAME_ID
  /\ recentDraws \in SeqsUpTo(AnalyzeDraws, 0, MaxDraws)
  /\ frequencyData = newFrequencyData(<<<<7, 7, 7>>>>)
  /\ hotDigitsPrediction = <<7>>
  /\ geminiPrediction = NoPrediction
  /\ isLoadingAiPrediction = FALSE
  /\ aiError = Null
  /\ ai = FALSE
  /\ inFlight = <<>>
  /\ error = NoError
  /\ fileError = NoError
  /\ sampleDataError = NoError
  /\ pendingReads = <<>>
  /\ lastEvent = Event("init", FALSE, FALSE)
  /\ game \in ParseGames
  /\ pendingEffects = <<EffectOf(recentDraws, game)>>
  /\ input = <<>>
  /\ result = Err("pending")
  /\ text = <<>>
  /\ csv = [parsedDraws |-> <<>>, errors |-> <<>>]
  /\ batch = <<>>
  /\ response = Rejection("Error")

\* the effect runs for the recentDraws of this render
Recompute == useEffect

SpecAnalyze == AnalyzeInit /\ [][Recompute]_vars

(***************************************************************************)
(* The response handling of getGeminiPrediction on its own: a request for  *)
(* any game of ParseGames is outstanding and the endpoint answers with any *)
(* response of ResponseInputs.                                             *)
(***************************************************************************)
\* elements of predictedNumbers: integers in and out of the ranges of the
\* games, a number with a fractional part (1.5) and a string
PredictedElements ==
  { Int_(-1), Int_(0), Int_(1), Int_(2), Int_(3), Int_(10),
    [t |-> "frac", n |-> 1], [t |-> "string", n |-> 0] }

\* predictedNumbers: absent, a string, or an array of up to MaxPredicted elements
PredictedNumbersInputs ==
  {Undefined, Str("1,2,3")}
    \cup {Arr(a) : a \in SeqsUpTo(PredictedElements, 0, MaxPredicted)}

\* analysisSummary: absent, a text, the empty text, or a number
AnalysisSummaryInputs == {Undefined, Str("x"), Str(""), [t |-> "number"]}

ResponseInputs ==
  {NoResponse("syntax"), NoResponse("null"), NoResponse("notext"),
   Rejection("Error"), Rejection("SyntaxError"), Rejection("other")}
    \cup [kind : {"object"}, predictedNumbers : PredictedNumbersInputs,
          analysisSummary : AnalysisSummaryInputs]

RespondInit ==
  LET collection == <<<<1, 2, 3>>, <<3, 1, 1>>, <<1, 2, 3>>>>
      after == RecomputeEffect(collection, <<>>, <<>>, NoPrediction, Null, Game3d)
  IN /\ selectedGameId = DEFAULT_GAME_ID
     /\ recentDraws = collection
     /\ frequencyData = after.frequencyData
     /\ hotDigitsPrediction = after.hotDigitsPrediction
     /\ geminiPrediction = NoPrediction
     /\ isLoadingAiPrediction = TRUE
     /\ aiError = Null
     /\ ai = TRUE
     /\ game \in ParseGames
     /\ inFlight = <<[game |-> game, stale |-> FALSE, sent |-> TRUE]>>
     /\ error = NoError
     /\ fileError = NoError
     /\ sampleDataError = NoError
     /\ pendingReads = <<>>
     /\ pendingEffects = <<>>
     /\ lastEvent = Event("handleGetGeminiPrediction", FALSE, FALSE)
     /\ response \in ResponseInputs
     /\ input = <<>>
     /\ result = Err("pending")
     /\ text = <<>>
     /\ csv = [parsedDraws |-> <<>>, errors |-> <<>>]
     /\ batch = <<>>

\* the endpoint answers the outstanding request with response
Respond ==
  /\ lastEvent.op = "handleGetGeminiPrediction"
  /\ responseArrives(1, response)

SpecRespond == RespondInit /\ [][Respond]_vars

(***************************************************************************)
(* Properties of the application (specification Spec).                     *)
(***************************************************************************)

\* C1: a response whose request started before the Draw Collection or the
\* active game changed is discarded: it never sets the held prediction.
C1_StaleResponseDiscarded ==
  [][\A i \in 1..Len(inFlight) : \A resp \in Responses :
       (responseArrives(i, resp) /\ inFlight[i].stale)
         => geminiPrediction' = geminiPrediction]_vars

\* the Draw Collection is empty, no prediction is held and no prediction
\* error is set
Cleared ==
  /\ recentDraws = <<>>
  /\ geminiPrediction = NoPrediction
  /\ aiError = Null

\* the frequency data and the hot digits are empty
NoAnalysis ==
  /\ frequencyData = <<>>
  /\ hotDigitsPrediction = <<>>

C3_ChangeClearsPrediction ==
  (lastEvent.changed /\ pendingEffects = <<>>) => geminiPrediction = NoPrediction

\* C4: a failing operation (an entry or a bulk load that fails validation, a
\* read error, a prediction request that fails) leaves the Draw Collection
\* and the frequency data as they were.
C4_FailureLeavesState ==
  [][(lastEvent'.failed /\ ~lastEvent'.effect) =>
       /\ recentDraws' = recentDraws
       /\ frequencyData' = frequencyData]_vars

\* an upload with a bad line was rejected while the collection held draws
C4_Witness ==
  /\ lastEvent.op = "readerOnLoad"
  /\ lastEvent.failed
  /\ fileError = "ErrorsInCsv"
  /\ recentDraws # <<>>

\* C5: without a client no call of the endpoint is ever outstanding; a
\* request that reaches getGeminiPrediction is rejected there, and its
\* continuation sets the error ServiceUnavailable, lowers the loading flag
\* and leaves no prediction; the presence of the client never changes.
C5_DisabledNeverCalls ==
  [][/\ ai' = ai
     /\ ~ai => \A i \in 1..Len(inFlight') : ~inFlight'[i].sent
     /\ (~ai /\ isLoadingAiPrediction') => inFlight' # <<>>
     /\ (/\ ~ai
         /\ lastEvent'.op = "handleGetGeminiPrediction"
         /\ ~lastEvent'.effect
         /\ Len(recentDraws) >= 3)
          => inFlight' = <<[game |-> selectedGame, stale |-> FALSE, sent |-> FALSE]>>
     /\ (lastEvent'.op = "clientNotInitialized" /\ ~lastEvent'.effect)
          => /\ ~ai
             /\ aiError' = "ServiceUnavailable"
             /\ lastEvent'.failed
             /\ ~isLoadingAiPrediction'
             /\ geminiPrediction' = NoPrediction
             /\ inFlight' = <<>>]_vars

\* a prediction was asked for with enough draws and no client, and the
\* rejection was caught
C5_Witness ==
  /\ ~ai
  /\ lastEvent.op = "clientNotInitialized"
  /\ Len(recentDraws) >= 3
  /\ aiError = "ServiceUnavailable"

\* C6: with fewer than 3 draws handleGetGeminiPrediction sets the error to
\* InsufficientData and nothing else; a call of the endpoint only ever
\* starts from a state with at least 3 draws.
C6_InsufficientDataFailsFast ==
  [][/\ (/\ lastEvent'.op = "handleGetGeminiPrediction"
         /\ ~lastEvent'.effect
         /\ Len(recentDraws) < 3)
          => /\ aiError' = "InsufficientData"
             /\ UNCHANGED <<selectedGameId, recentDraws, frequencyData,
                            hotDigitsPrediction, geminiPrediction,
                            isLoadingAiPrediction, inFlight>>
     /\ Len(inFlight') > Len(inFlight) => Len(recentDraws) >= 3]_vars

\* a prediction was asked for with one or two draws in the collection
C6_Witness ==
  /\ lastEvent.op = "handleGetGeminiPrediction"
  /\ recentDraws # <<>>
  /\ Len(recentDraws) < 3
  /\ aiError = "InsufficientData"

(***************************************************************************)
(* Properties of validateAndParseDraw (specification SpecParse).           *)
(***************************************************************************)
\* the tokens of a text: its maximal runs of characters that are no separator
TokenStarts(s) ==
  {i \in 1..Len(s) : ~IsSep(s[i]) /\ (i = 1 \/ IsSep(s[i - 1]))}

TokenEnd(s, a) ==
  CHOOSE b \in a..Len(s) :
    /\ \A j \in a..b : ~IsSep(s[j])
    /\ b = Len(s) \/ IsSep(s[b + 1])

KthStart(s, k) ==
  CHOOSE i \in TokenStarts(s) : Cardinality({j \in TokenStarts(s) : j < i}) = k - 1

ExpectedTokens(s) ==
  [k \in 1..Cardinality(TokenStarts(s)) |->
     SubSeq(s, KthStart(s, k), TokenEnd(s, KthStart(s, k)))]

\* what a token denotes as a numeric literal, before any rounding: "nan" for
\* no literal, "int" for an integer n (10^9 from there on), "frac" for a value
\* that is no integer, "inf" for Infinity
TokenValue(tok) ==
  LET x == Exact(tok)
  IN CASE x.kind = "nan" -> [t |-> "nan", n |-> 0]
       [] x.kind = "inf" -> [t |-> "inf", n |-> 0]
       [] x.kind = "radix" ->
            [t |-> "int", n |-> RadixValue(StripLeadingZeros(BitsOf(x.digits, x.radix)))]
       [] OTHER ->
            IF x.exp < 0 THEN [t |-> "frac", n |-> 0]
            ELSE IF Len(x.digits) + x.exp > 9 THEN [t |-> "int", n |-> 1000000000]
            ELSE [t |-> "int", n |-> NatValue(PadRight(x.digits, Len(x.digits) + x.exp, 0))]

ExpectedNumbers(s) ==
  [k \in 1..Len(ExpectedTokens(s)) |-> TokenValue(ExpectedTokens(s)[k])]

ExpectedValues(s) == [k \in 1..Len(ExpectedNumbers(s)) |-> ExpectedNumbers(s)[k].n]

AllIntegers(s) == \A k \in 1..Len(ExpectedNumbers(s)) : ExpectedNumbers(s)[k].t = "int"

\* exactly digitCount tokens, each an integer within [minValue, maxValue]
CountNumericRangeValid(s, g) ==
  /\ Len(ExpectedTokens(s)) = g.numbersToPick
  /\ \A k \in 1..Len(ExpectedNumbers(s)) :
       LET v == ExpectedNumbers(s)[k]
       IN v.t = "int" /\ DigitMin(g) <= v.n /\ v.n <= g.maxNumber

Validated == result.error # "pending"

\* C7: for an order-significant game validateAndParseDraw returns a draw
\* exactly when the text has digitCount tokens that are all integers within
\* the game's range, and the draw holds those values in token order.
C7_OrderedParse ==
  (Validated /\ game.isOrderSignificant) =>
    /\ result.ok <=> CountNumericRangeValid(input, game)
    /\ result.ok => result.draw = ExpectedValues(input)

\* an accepted draw with a repeated value, not in ascending order
C7_Witness ==
  /\ Validated
  /\ game.isOrderSignificant
  /\ result.ok
  /\ result.draw = <<3, 1, 1>>

StrictlyAscending(xs) == \A i \in 1..Len(xs) : \A j \in 1..Len(xs) : i < j => xs[i] < xs[j]

HasRepeat(xs) == \E i \in 1..Len(xs) : \E j \in 1..Len(xs) : i # j /\ xs[i] = xs[j]

\* C8: for a combination game a count-, numeric- and range-valid text with a
\* repeated value fails with DuplicateValue, one without is accepted, and
\* every draw returned is strictly ascending and a permutation of the
\* values of the tokens.
C8_CombinationParse ==
  (Validated /\ ~game.isOrderSignificant) =>
    /\ (CountNumericRangeValid(input, game) /\ HasRepeat(ExpectedValues(input)))
         => (~result.ok /\ result.error = "DuplicateValue")
    /\ (CountNumericRangeValid(input, game) /\ ~HasRepeat(ExpectedValues(input)))
         => result.ok
    /\ result.ok =>
         /\ StrictlyAscending(result.draw)
         /\ AllIntegers(input)
         /\ Len(result.draw) = Len(ExpectedValues(input))
         /\ Range(result.draw) = Range(ExpectedValues(input))

\* "3,1,2" of a combination game became [1,2,3]
C8_Witness ==
  /\ Validated
  /\ ~game.isOrderSignificant
  /\ input = <<"3", ",", "1", ",", "2">>
  /\ result.ok
  /\ result.draw = <<1, 2, 3>>

(***************************************************************************)
(* Properties of processCsvText (specification SpecBatch).                 *)
(***************************************************************************)
\* position i holds the first character of a line that is not white space
FirstOfLine(s, i) ==
  /\ ~IsSpace(s[i])
  /\ \A j \in 1..(i - 1) :
       ~IsSpace(s[j]) => \E k \in (j + 1)..(i - 1) : s[k] = "\n"

NonBlankLineCount(s) == Cardinality({i \in 1..Len(s) : FirstOfLine(s, i)})

\* the k-th element of a set of numbers, ascending
KthOf(S, k) == CHOOSE i \in S : Cardinality({j \in S : j < i}) = k - 1

LineOutcomes(s, g) ==
  [k \in 1..Len(Lines(s)) |-> validateAndParseDraw(Lines(s)[k], g)]

Processed == csv # CsvPending

\* C9: every non-blank line yields exactly one outcome: the draws are those
\* of the accepted lines in line order, the errors those of the rejected
\* lines in line order, each with its line number, whatever came before.
C9_BatchNeverShortCircuits ==
  Processed =>
    LET outcomes == LineOutcomes(text, game)
        good == {k \in 1..Len(outcomes) : outcomes[k].ok}
        bad == {k \in 1..Len(outcomes) : ~outcomes[k].ok}
    IN /\ Len(csv.parsedDraws) + Len(csv.errors) = NonBlankLineCount(text)
       /\ Len(outcomes) = NonBlankLineCount(text)
       /\ csv.parsedDraws =
            [n \in 1..Cardinality(good) |-> outcomes[KthOf(good, n)].draw]
       /\ csv.errors =
            [n \in 1..Cardinality(bad) |->
               [line |-> KthOf(bad, n), error |-> outcomes[KthOf(bad, n)].error]]

\* a rejected first line followed by an accepted second line
C9_Witness ==
  /\ Processed
  /\ Len(csv.errors) = 1
  /\ csv.errors[1].line = 1
  /\ Len(csv.parsedDraws) = 1

(***************************************************************************)
(* Properties of handleAddMultipleDraws (specification SpecInsert).        *)
(***************************************************************************)
\* C10: handleAddMultipleDraws(batch) yields the batch reversed followed by
\* the previous collection: the last draw of the batch at the front, the
\* previous draws behind in their order, the length grown by Len(batch).
C10_InsertManyReversed ==
  [][lastEvent'.op = "handleAddMultipleDraws" =>
       /\ Len(recentDraws') = Len(recentDraws) + Len(batch)
       /\ \A i \in 1..Len(batch) : recentDraws'[i] = batch[Len(batch) + 1 - i]
       /\ \A j \in 1..Len(recentDraws) :
            recentDraws'[Len(batch) + j] = recentDraws[j]]_vars

(***************************************************************************)
(* Properties of the frequency analysis (specification SpecAnalyze).       *)
(***************************************************************************)
\* the positions <<d, p>> of the values of a list of draws
Positions(draws) ==
  UNION {{<<d, p>> : p \in 1..Len(draws[d])} : d \in 1..Len(draws)}

Occurrences(v, draws) ==
  Cardinality({dp \in Positions(draws) : draws[dp[1]][dp[2]] = v})

DistinctValues(draws) == UNION {Range(draws[d]) : d \in 1..Len(draws)}

TotalCount(draws) == Cardinality(Positions(draws))

RECURSIVE SumOfCounts(_)
SumOfCounts(fd) ==
  IF fd = <<>> THEN 0 ELSE Head(fd).count + SumOfCounts(Tail(fd))

\* fd lists every distinct value of draws once with its number of
\* occurrences, by count descending and then by value ascending
IsAnalysisOf(fd, draws) ==
  /\ Len(fd) = Cardinality(DistinctValues(draws))
  /\ {fd[i].number : i \in 1..Len(fd)} = DistinctValues(draws)
  /\ \A i \in 1..Len(fd) : fd[i].count = Occurrences(fd[i].number, draws)
  /\ SumOfCounts(fd) = TotalCount(draws)
  /\ \A i \in 1..Len(fd) : \A j \in 1..Len(fd) :
       i < j => \/ fd[i].count > fd[j].count
                \/ fd[i].count = fd[j].count /\ fd[i].number < fd[j].number

Reordered(draws, perm) == [i \in 1..Len(draws) |-> draws[perm[i]]]

Analyzed == lastEvent.effect

\* C11: the frequency data computed for a collection has one entry per
\* distinct value with its number of occurrences, the counts add up to the
\* number of values of all draws, the entries are ordered by count descending
\* and value ascending, and any reordering of the draws gives the same list.
C11_AnalyzeCountsAndOrder ==
  Analyzed =>
    /\ IsAnalysisOf(frequencyData, recentDraws)
    /\ \A perm \in Permutations(1..Len(recentDraws)) :
         newFrequencyData(Reordered(recentDraws, perm)) = frequencyData

\* [[1,2,3],[1,2,3],[4,5,6]]: 1, 2 and 3 twice, tied and in ascending order,
\* then 4, 5 and 6
C11_Witness ==
  /\ Analyzed
  /\ recentDraws = <<<<1, 2, 3>>, <<1, 2, 3>>, <<4, 5, 6>>>>
  /\ Len(frequencyData) = 6
  /\ frequencyData[1].number = 1
  /\ frequencyData[1].count = 2
  /\ frequencyData[2].number = 2
  /\ frequencyData[4].number = 4

\* hot holds, ascending, the values of the first numbersToPick entries of fd
IsHotDigitsOf(hot, fd, draws, numbersToPick) ==
  LET distinct == DistinctValues(draws)
      k == IF numbersToPick < Cardinality(distinct)
           THEN numbersToPick ELSE Cardinality(distinct)
  IN /\ Len(hot) = k
     /\ StrictlyAscending(hot)
     /\ Range(hot) = {fd[i].number : i \in 1..k}
     /\ \A v \in distinct \ Range(hot) : \A w \in Range(hot) :
          Occurrences(v, draws) <= Occurrences(w, draws)

\* C12: the hot digits are the values of the first numbersToPick entries of
\* the frequency data in ascending order: min(numbersToPick, distinct values)
\* of them, none repeated, and no value left out occurs more often than a
\* value included.
C12_HotDigits ==
  Analyzed =>
    IsHotDigitsOf(hotDigitsPrediction, frequencyData, recentDraws,
                  game.numbersToPick)

\* the three most frequent of four values, listed ascending although 9
\* comes before 3 in the frequency data
C12_Witness ==
  /\ Analyzed
  /\ recentDraws = <<<<9, 9, 9>>, <<1, 2, 3>>, <<3, 1, 1>>>>
  /\ game.numbersToPick = 3
  /\ hotDigitsPrediction = <<1, 3, 9>>

(***************************************************************************)
(* Properties of the stored analysis (specification Spec).                 *)
(***************************************************************************)
\* every percentage of fd is 100 * count / total number of values
PercentagesOf(fd, draws) ==
  \A i \in 1..Len(fd) :
    fd[i].percentage.num * TotalCount(draws)
      = 100 * Occurrences(fd[i].number, draws) * fd[i].percentage.den

\* C13: whenever no recomputation is pending the stored frequency data and
\* hot digits are the analysis of the current Draw Collection; both are
\* empty when it is empty.
C13_StoredAnalysisCurrent ==
  pendingEffects = <<>> =>
  /\ IsAnalysisOf(frequencyData, recentDraws)
  /\ PercentagesOf(frequencyData, recentDraws)
  /\ IsHotDigitsOf(hotDigitsPrediction, frequencyData, recentDraws,
                   selectedGame.numbersToPick)
  /\ recentDraws = <<>> => (frequencyData = <<>> /\ hotDigitsPrediction = <<>>)

\* the removal of the only draw left emptied the collection, and its
\* recomputation has run
C13_Witness ==
  /\ lastEvent.op = "handleRemoveDraw"
  /\ lastEvent.changed
  /\ lastEvent.effect
  /\ pendingEffects = <<>>
  /\ recentDraws = <<>>
  /\ frequencyData = <<>>
  /\ hotDigitsPrediction = <<>>

(***************************************************************************)
(* Properties of the prediction requestor (specification SpecRespond).     *)
(***************************************************************************)
Responded == lastEvent.op = "responseArrives"

\* both fields present, predictedNumbers a sequence, analysisSummary a string
WellFormed(resp) ==
  /\ resp.kind = "object"
  /\ resp.predictedNumbers.t = "array"
  /\ resp.analysisSummary.t = "string"

\* exactly digitCount elements, each an integer within [minValue, maxValue]
ElementsValid(a, g) ==
  /\ Len(a) = g.numbersToPick
  /\ \A i \in 1..Len(a) :
       a[i].t = "int" /\ DigitMin(g) <= a[i].n /\ a[i].n <= g.maxNumber

\* C14: a prediction is stored only for a response whose predictedNumbers
\* has digitCount elements that are integers of the game's range; a
\* well-formed response without that fails with InvalidPredictionValue and
\* stores nothing.
C14_InvalidPredictionValue ==
  Responded =>
    /\ geminiPrediction # NoPrediction =>
         /\ response.kind = "object"
         /\ response.predictedNumbers.t = "array"
         /\ ElementsValid(response.predictedNumbers.a, game)
    /\ (WellFormed(response) /\ ~ElementsValid(response.predictedNumbers.a, game))
         => (aiError = "InvalidPredictionValue" /\ geminiPrediction = NoPrediction)

\* C15: the response fails with MalformedResponse exactly when its text is
\* no JSON, a field is absent (as both are of the JSON text null),
\* predictedNumbers is no sequence or analysisSummary is no string.
C15_MalformedResponse ==
  Responded =>
    (aiError = "MalformedResponse"
       <=> \/ response.kind = "syntax"
           \/ response.kind = "null"
           \/ response.kind = "object" /\ ~WellFormed(response))

\* C18: for an order-significant game a response with a non-empty summary
\* that passes the length and range checks is stored with its
\* predictedNumbers as they came, in order and with their repeats.
C18_OrderedPredictionKept ==
  ( /\ Responded
    /\ game.isOrderSignificant
    /\ WellFormed(response)
    /\ response.analysisSummary.s # ""
    /\ ElementsValid(response.predictedNumbers.a, game) )
    => geminiPrediction =
         <<[predictedNumbers |-> ElementValues(response.predictedNumbers.a),
            analysisSummary |-> response.analysisSummary]>>

(***************************************************************************)
(* The order of the checks of validateAndParseDraw (specification          *)
(* SpecParse).                                                             *)
(***************************************************************************)
\* the rules a text breaks, each on its own
BreaksCount(s, g) == Len(ExpectedTokens(s)) # g.numbersToPick

BreaksNumeric(s) ==
  \E k \in 1..Len(ExpectedNumbers(s)) : ExpectedNumbers(s)[k].t = "nan"

BreaksRange(s, g) ==
  \E k \in 1..Len(ExpectedNumbers(s)) :
    \/ ExpectedNumbers(s)[k].t \in {"frac", "inf"}
    \/ /\ ExpectedNumbers(s)[k].t = "int"
       /\ (ExpectedNumbers(s)[k].n < DigitMin(g) \/ ExpectedNumbers(s)[k].n > g.maxNumber)

BreaksUnique(s, g) ==
  ~g.isOrderSignificant /\ AllIntegers(s) /\ HasRepeat(ExpectedValues(s))

\* C16: a text is reported with the first rule it breaks: WrongCount, then
\* NotNumeric, then OutOfRange, then DuplicateValue.
C16_CheckOrder ==
  Validated =>
    /\ BreaksCount(input, game) => result.error = "WrongCount"
    /\ (~BreaksCount(input, game) /\ BreaksNumeric(input))
         => result.error = "NotNumeric"
    /\ (~BreaksCount(input, game) /\ ~BreaksNumeric(input) /\ BreaksRange(input, game))
         => result.error = "OutOfRange"
    /\ (CountNumericRangeValid(input, game) /\ BreaksUnique(input, game))
         => result.error = "DuplicateValue"
    /\ result.error = "DuplicateValue" => BreaksUnique(input, game)

\* "1,a,10" breaks the numeric rule and the range rule and is NotNumeric
C16_Witness ==
  /\ Validated
  /\ input = <<"1", ",", "a", ",", "1", "0">>
  /\ ~BreaksCount(input, game)
  /\ BreaksNumeric(input)
  /\ BreaksRange(input, game)
  /\ result.error = "NotNumeric"

(***************************************************************************)
(* Properties of handleRemoveDraw and of the collection (specification     *)
(* Spec).                                                                  *)
(***************************************************************************)
\* C17: handleRemoveDraw with an index of the collection removes the draw at
\* that position and keeps the others in their order; with any other index
\* it leaves the collection as it was and reports no error.
C17_RemoveAt ==
  [][\A indexToRemove \in -1..Len(recentDraws) :
       handleRemoveDraw(indexToRemove) =>
         IF 0 <= indexToRemove /\ indexToRemove < Len(recentDraws)
         THEN /\ Len(recentDraws') = Len(recentDraws) - 1
              /\ \A j \in 1..indexToRemove : recentDraws'[j] = recentDraws[j]
              /\ \A j \in (indexToRemove + 2)..Len(recentDraws) :
                   recentDraws'[j - 1] = recentDraws[j]
         ELSE /\ recentDraws' = recentDraws
              /\ ~lastEvent'.failed
              /\ error' = error
              /\ fileError' = fileError
              /\ sampleDataError' = sampleDataError
              /\ aiError' = aiError]_vars

\* a removal took one of three draws and left two different draws
C17_Witness ==
  /\ lastEvent.op = "handleRemoveDraw"
  /\ lastEvent.changed
  /\ Len(recentDraws) = 2
  /\ recentDraws[1] # recentDraws[2]

\* C19: every draw of the collection has numbersToPick values of the active
\* game, each within its range.
C19_DrawsValidForGame ==
  \A d \in 1..Len(recentDraws) :
    /\ Len(recentDraws[d]) = selectedGame.numbersToPick
    /\ \A p \in 1..Len(recentDraws[d]) :
         /\ recentDraws[d][p] \in Int
         /\ DigitMin(selectedGame) <= recentDraws[d][p]
         /\ recentDraws[d][p] <= selectedGame.maxNumber

\* the entry "0,9,10" was rejected while the collection held draws
C19_Witness ==
  /\ lastEvent.op = "handleAddDraw"
  /\ lastEvent.failed
  /\ error = "OutOfRange"
  /\ Len(recentDraws) >= 2

====
